---- MODULE Spec2Model ----
(***************************************************************************)
(* The control flow of train() in src/nmt/train.py: set-up, the first      *)
(* evaluation, the training loop with its statistics / checkpoint /        *)
(* evaluation cadences, the end-of-epoch handler and the end of training.  *)
(*                                                                         *)
(* The framework objects are kept by what train() observes of them:        *)
(*   - a directory is the global step of its newest checkpoint (NoCkpt     *)
(*     when it holds none);                                                *)
(*   - a perplexity is the pair (label, checkpoint it was computed from);  *)
(*   - the training data is a number of elements, batched in order;        *)
(*   - time is counted in units of one training step's duration.           *)
(* `trace` holds the calls made by the action that led to the state, in    *)
(* program order; `calls` counts them over the run.                        *)
(***************************************************************************)
EXTENDS Integers, Sequences, FiniteSets, TLC

(* ------------------------------ bounds -------------------------------- *)
\* out_dir may start with a checkpoint of any step up to MaxStart
MaxStart == 1
\* a long run trains MaxLongRun steps past the step it was loaded at
MaxLongRun == 10
\* the training files hold up to MaxElements sentence pairs
MaxElements == 2

\* out_dir may also start close below the default external cadence
LateStarts == {45}
ShortRuns == {0, 1, 2}
EpochSteps == {0, 1}
StepsPerStatsChoices == {1, 2}
StepsPerExternalEvalChoices == {0, 3}
BatchSizes == {1, 2}
Scores == {0, 2}
MetricNames == {"bleu", "rouge"}
MetricLists == {<<>>, <<"bleu">>, <<"bleu", "rouge">>}
Attentions == {"", "luong"}
Architectures == {"standard", "gnmt", "gnmt_v2", "transformer"}

(* ------------------------- program constants -------------------------- *)
EvalFactor == 10
ExternalEvalFactor == 5

NoCkpt == -1
NaN == -1
Dirs == {"out_dir", "best_bleu_dir", "best_rouge_dir"}

VARIABLES
  pc,                      \* position in train()
  eval_only,               \* argument of train()
  hparams,                 \* the hparams object
  train_data,              \* number of elements of the training files
  ckpt,                    \* directory -> global step of its newest checkpoint
  saved_hparams,           \* the hparams last persisted to out_dir
  resources,               \* graphs, log file, sessions, summary writer created
  num_train_steps, steps_per_stats, steps_per_eval, steps_per_external_eval,
  model_dir, global_step,
  dev_ppl, test_ppl,
  all_dev_perplexities, all_test_perplexities, all_steps,
  stats,                   \* step_time, checkpoint_loss, ... accumulators
  skip_count, batches_left,\* the training iterator
  steps_since_init,        \* successful steps since the iterator was last
                           \* initialised
  ckpt_epoch_step,         \* hparams.epoch_step when out_dir's newest
                           \* checkpoint was written
  calls,                   \* number of calls made so far, by kind
  trace                    \* calls made by the last action, in order

vars == <<pc, eval_only, hparams, train_data, ckpt, saved_hparams, resources,
          num_train_steps, steps_per_stats, steps_per_eval,
          steps_per_external_eval, model_dir, global_step, dev_ppl, test_ppl,
          all_dev_perplexities, all_test_perplexities, all_steps, stats,
          skip_count, batches_left, steps_since_init, ckpt_epoch_step,
          calls, trace>>

(* ------------------------------ helpers ------------------------------- *)
Ev(op, arg, step) == [op |-> op, arg |-> arg, step |-> step]

Emit(m, e) == [m EXCEPT !.trace = Append(@, e)]

Range(s) == {s[i] : i \in 1..Len(s)}

Last(s) == s[Len(s)]

None == [label |-> "None", ckpt |-> NoCkpt]

\* model_helper.compute_perplexity: a value determined by the label and the
\* checkpoint the evaluated model was loaded from
Ppl(label, id) == [label |-> label, ckpt |-> id]

FAdd(a, b) == IF a = NaN \/ b = NaN THEN NaN ELSE a + b

FMul(a, b) == IF a = NaN \/ b = NaN THEN NaN ELSE a * b

ZeroStats == [step_time |-> 0, checkpoint_loss |-> 0,
              checkpoint_predict_count |-> 0, checkpoint_total_count |-> 0]

BestDir(metric) == IF metric = "bleu" THEN "best_bleu_dir" ELSE "best_rouge_dir"

\* model_helper.create_or_load_model: the global step of the loaded model,
\* 0 for a freshly initialised one
create_or_load_model(id) == IF id = NoCkpt THEN 0 ELSE id

\* number of batches the training iterator yields after skipping `skip`
\* elements of `n`, in batches of `b`
Batches(n, b, skip) ==
  LET left == IF n > skip THEN n - skip ELSE 0
  IN (left + b - 1) \div b

\* train_model.train: the outputs of one successful step
StepResult(m, loss) ==
  [step_loss |-> loss,
   step_predict_count |-> m.hparams.batch_size,
   step_word_count |-> 2 * m.hparams.batch_size,
   global_step |-> m.global_step + 1,
   batch_size |-> m.hparams.batch_size]

StepLosses == {1, NaN}

\* the scores decode_and_evaluate may return for the metrics it is asked for;
\* one value stands for all when the scores are never read
ScoreSets(metrics, read) ==
  {s \in [MetricNames -> Scores] :
     \A x \in MetricNames : (~read \/ x \notin Range(metrics)) => s[x] = 0}

(* -------------------------- lines 136 - 156 --------------------------- *)
StepsPerEval(sps) == EvalFactor * sps

\* the default cadence taken from steps_per_stats instead of steps_per_eval
StepsPerExternalEvalM(given, sps) ==
  IF given = 0 THEN ExternalEvalFactor * sps ELSE given

StepsPerExternalEval(given, sps) ==
  IF given = 0 THEN ExternalEvalFactor * StepsPerEval(sps) ELSE given

\* an unknown architecture falls through to the last known model
ModelCreatorM(attention, architecture) ==
  IF attention = "" THEN "Model"
  ELSE IF architecture = "standard" THEN "AttentionModel"
  ELSE "GNMTModel"

ModelCreator(attention, architecture) ==
  IF attention = "" THEN "Model"
  ELSE IF architecture = "standard" THEN "AttentionModel"
  ELSE IF architecture \in {"gnmt", "gnmt_v2"} THEN "GNMTModel"
  ELSE "ValueError"

(* -------------------------- lines 189 - 197 --------------------------- *)
\* eval_only loading from out_dir like a training run
ModelDirM(eo, metrics) ==
  IF eo /\ Len(metrics) # 1 THEN "ValueError" ELSE "out_dir"

ModelDir(eo, metrics) ==
  IF eo
  THEN IF Len(metrics) # 1 THEN "ValueError" ELSE BestDir(metrics[1])
  ELSE "out_dir"

(* ------------------------------ saver.save ---------------------------- *)
SaverSave(m, dir, step) ==
  [m EXCEPT !.ckpt[dir] = step,
            !.ckpt_epoch_step =
               IF dir = "out_dir" THEN m.hparams.epoch_step ELSE @,
            !.calls.save = @ + 1,
            !.trace = Append(@, Ev("save", dir, step))]

(* -------------------------- lines 223 - 246 --------------------------- *)
run_internal_eval(m) ==
  LET id == m.ckpt[model_dir]
      loaded == create_or_load_model(id)
      test == IF m.hparams.test_prefix THEN Ppl("test", id) ELSE None
      evs == <<Ev("run_internal_eval", model_dir, loaded),
               Ev("_internal_eval", "dev", loaded)>>
             \o (IF m.hparams.test_prefix
                 THEN <<Ev("_internal_eval", "test", loaded)>> ELSE <<>>)
  IN [m EXCEPT !.dev_ppl = Ppl("dev", id),
               !.test_ppl = test,
               !.calls.internal_eval = @ + 1,
               !.trace = @ \o evs]

(* -------------------------- lines 501 - 513 --------------------------- *)
RECURSIVE SaveOnBest(_, _, _, _, _)
SaveOnBest(m, metrics, step, save_on_best, scores) ==
  IF metrics = <<>> THEN m
  ELSE LET metric == Head(metrics)
           m1 == IF save_on_best /\ scores[metric] > m.hparams.best[metric]
                 THEN SaverSave(
                        Emit([m EXCEPT !.hparams.best[metric] = scores[metric]],
                             Ev("set_best", metric, scores[metric])),
                        BestDir(metric), step)
                 ELSE m
       IN SaveOnBest(m1, Tail(metrics), step, save_on_best, scores)

save_hparams(m) ==
  [m EXCEPT !.saved_hparams = [epoch_step |-> m.hparams.epoch_step,
                               best |-> m.hparams.best],
            !.trace = Append(@, Ev("save_hparams", "out_dir",
                                   m.hparams.epoch_step))]

(* -------------------------- lines 478 - 514 --------------------------- *)
_external_eval(m, step, label, save_on_best, scores) ==
  LET decode == step > 0
      m1 == Emit(m, Ev("_external_eval", label, step))
  IN IF decode
     THEN save_hparams(
            SaveOnBest(m1, m.hparams.metrics, step, save_on_best, scores))
     ELSE m1

(* -------------------------- lines 249 - 284 --------------------------- *)
\* the test evaluation given the dev evaluation's save_on_best
run_external_evalM(m, dev_scores, test_scores) ==
  LET loaded == create_or_load_model(m.ckpt[model_dir])
      m0 == [Emit(m, Ev("run_external_eval", model_dir, loaded))
               EXCEPT !.calls.external_eval = @ + 1]
      m1 == _external_eval(m0, loaded, "dev", ~eval_only, dev_scores)
  IN IF m.hparams.test_prefix
     THEN _external_eval(m1, loaded, "test", ~eval_only, test_scores)
     ELSE m1

run_external_eval(m, dev_scores, test_scores) ==
  LET loaded == create_or_load_model(m.ckpt[model_dir])
      m0 == [Emit(m, Ev("run_external_eval", model_dir, loaded))
               EXCEPT !.calls.external_eval = @ + 1]
      m1 == _external_eval(m0, loaded, "dev", ~eval_only, dev_scores)
  IN IF m.hparams.test_prefix
     THEN _external_eval(m1, loaded, "test", FALSE, test_scores)
     ELSE m1

(* ------------------------ the action's frame -------------------------- *)
Cur ==
  [hparams |-> hparams, ckpt |-> ckpt, saved_hparams |-> saved_hparams,
   global_step |-> global_step, dev_ppl |-> dev_ppl, test_ppl |-> test_ppl,
   all_dev_perplexities |-> all_dev_perplexities,
   all_test_perplexities |-> all_test_perplexities,
   all_steps |-> all_steps, stats |-> stats, calls |-> calls,
   steps_since_init |-> steps_since_init,
   ckpt_epoch_step |-> ckpt_epoch_step,
   trace |-> <<>>, broke |-> FALSE]

Commit(m) ==
  /\ hparams' = m.hparams
  /\ ckpt' = m.ckpt
  /\ saved_hparams' = m.saved_hparams
  /\ global_step' = m.global_step
  /\ dev_ppl' = m.dev_ppl
  /\ test_ppl' = m.test_ppl
  /\ all_dev_perplexities' = m.all_dev_perplexities
  /\ all_test_perplexities' = m.all_test_perplexities
  /\ all_steps' = m.all_steps
  /\ stats' = m.stats
  /\ calls' = m.calls
  /\ steps_since_init' = m.steps_since_init
  /\ ckpt_epoch_step' = m.ckpt_epoch_step
  /\ trace' = m.trace

AppendResults(m) ==
  [m EXCEPT !.all_dev_perplexities = Append(@, m.dev_ppl),
            !.all_test_perplexities = Append(@, m.test_ppl),
            !.all_steps = Append(@, m.global_step),
            !.trace = Append(@, Ev("append", "results", m.global_step))]

(* ------------------------------- Init --------------------------------- *)
StartCkpts == (NoCkpt..MaxStart) \cup LateStarts

Init ==
  /\ pc = "start"
  /\ eval_only \in BOOLEAN
  /\ \E s \in StartCkpts, e \in EpochSteps, prior \in BOOLEAN :
       /\ e <= create_or_load_model(s)
       /\ ckpt_epoch_step = e
       /\ prior => s > 0
       /\ ckpt = [d \in Dirs |->
                    IF d = "out_dir" THEN s ELSE IF prior THEN s ELSE NoCkpt]
       /\ hparams = [num_train_steps |-> 0, steps_per_stats |-> 0,
                     steps_per_external_eval |-> 0, metrics |-> <<>>,
                     test_prefix |-> FALSE, batch_size |-> 0,
                     epoch_step |-> IF e > 0 THEN e ELSE 0,
                     best |-> [x \in MetricNames |-> IF prior THEN 1 ELSE 0]]
       /\ saved_hparams = [epoch_step |-> IF e > 0 THEN e ELSE 0,
                           best |-> [x \in MetricNames |->
                                       IF prior THEN 1 ELSE 0]]
  /\ train_data = 0
  /\ resources = {}
  /\ num_train_steps = 0
  /\ steps_per_stats = 0
  /\ steps_per_eval = 0
  /\ steps_per_external_eval = 0
  /\ model_dir = "unset"
  /\ global_step = 0
  /\ dev_ppl = None
  /\ test_ppl = None
  /\ all_dev_perplexities = <<>>
  /\ all_test_perplexities = <<>>
  /\ all_steps = <<>>
  /\ stats = ZeroStats
  /\ skip_count = 0
  /\ batches_left = 0
  /\ steps_since_init = 0
  /\ calls = [train |-> 0, save |-> 0, internal_eval |-> 0,
              external_eval |-> 0]
  /\ trace = <<>>

(* ----------------------- Setup: lines 134 - 220 ----------------------- *)
\* the values of num_train_steps a caller asks for, given the step the run
\* is loaded at
TrainStepTargets(eo, fs) ==
  LET dir == IF eo THEN "best_bleu_dir" ELSE "out_dir"
  IN ShortRuns \cup {create_or_load_model(fs[dir]) + MaxLongRun}

SetupTrace(attention, architecture, creator, dir, loaded) ==
  <<Ev("hparams.attention", attention, 0)>>
  \o (IF attention = "" THEN <<>>
      ELSE <<Ev("hparams.attention_architecture", architecture, 0)>>)
  \o (IF creator = "ValueError" THEN <<Ev("raise", "ValueError", 0)>>
      ELSE <<Ev("create_train_model", creator, 0),
             Ev("create_eval_model", creator, 0),
             Ev("create_infer_model", creator, 0)>>
           \o (IF dir = "ValueError" THEN <<Ev("raise", "ValueError", 0)>>
               ELSE <<Ev("log_file", "out_dir", 0),
                      Ev("Session", "train", 0),
                      Ev("Session", "eval", 0),
                      Ev("Session", "infer", 0),
                      Ev("create_or_load_model", dir, loaded),
                      Ev("FileWriter", "out_dir", 0)>>))

Setup ==
  /\ pc = "start"
  /\ \E n \in TrainStepTargets(eval_only, ckpt),
        sps \in StepsPerStatsChoices,
        spx \in StepsPerExternalEvalChoices,
        metrics \in MetricLists,
        tp \in BOOLEAN,
        attention \in Attentions,
        architecture \in Architectures :
       LET creator == ModelCreator(attention, architecture)
           dir == ModelDir(eval_only, metrics)
           failed == creator = "ValueError" \/ dir = "ValueError"
           loaded == IF failed THEN 0 ELSE create_or_load_model(ckpt[dir])
       IN /\ hparams' = [hparams EXCEPT !.num_train_steps = n,
                                        !.steps_per_stats = sps,
                                        !.steps_per_external_eval = spx,
                                        !.metrics = metrics,
                                        !.test_prefix = tp]
          /\ num_train_steps' = n
          /\ steps_per_stats' = sps
          /\ steps_per_eval' = StepsPerEval(sps)
          /\ steps_per_external_eval' = StepsPerExternalEval(spx, sps)
          /\ trace' = SetupTrace(attention, architecture, creator, dir, loaded)
          /\ resources' = IF creator = "ValueError" THEN {}
                          ELSE IF dir = "ValueError" THEN {"graphs"}
                          ELSE {"graphs", "log_file", "sessions",
                                "summary_writer"}
          /\ model_dir' = IF failed THEN model_dir ELSE dir
          /\ global_step' = loaded
          /\ pc' = IF failed THEN "error" ELSE "first_eval"
  /\ UNCHANGED <<eval_only, train_data, ckpt, saved_hparams, dev_ppl, test_ppl,
                 all_dev_perplexities, all_test_perplexities, all_steps, stats,
                 skip_count, batches_left, steps_since_init, ckpt_epoch_step,
                 calls>>

(* --------------------- FirstEval: lines 286 - 313 --------------------- *)
FirstEval ==
  /\ pc = "first_eval"
  /\ \E b \in BatchSizes, n \in 1..MaxElements,
        dev_scores \in ScoreSets(hparams.metrics, TRUE),
        test_scores \in ScoreSets(hparams.metrics, hparams.test_prefix) :
       LET m0 == [Cur EXCEPT !.hparams.batch_size = b]
           m1 == run_internal_eval(m0)
           m2 == run_external_eval(m1, dev_scores, test_scores)
           m3 == [m2 EXCEPT !.all_dev_perplexities = <<m2.dev_ppl>>,
                            !.all_test_perplexities = <<m2.test_ppl>>,
                            !.all_steps = <<m2.global_step>>,
                            !.stats = ZeroStats]
           skip == b * m3.hparams.epoch_step
           m4 == [Emit(m3, Ev("train_iterator.initializer", "skip", skip))
                    EXCEPT !.steps_since_init = 0]
       IN /\ Commit(m4)
          /\ train_data' = n
          /\ skip_count' = skip
          /\ batches_left' = Batches(n, b, skip)
  /\ pc' = "loop"
  /\ UNCHANGED <<eval_only, resources, num_train_steps, steps_per_stats,
                 steps_per_eval, steps_per_external_eval, model_dir>>

(* ------------------- the training loop: 315 - 388 --------------------- *)
\* an off-by-one loop bound
LoopCondM(gs, n, eo) == gs <= n /\ ~eo

LoopCond(gs, n, eo) == gs < n /\ ~eo

\* lines 319 - 322 and 338
\* a successful step that leaves hparams.epoch_step alone
RunStepM(m, loss) ==
  LET r == StepResult(m, loss)
  IN [m EXCEPT !.global_step = r.global_step,
               !.calls.train = @ + 1,
               !.steps_since_init = @ + 1,
               !.trace = @ \o <<Ev("train", "ok", r.global_step),
                                Ev("add_summary", "step", r.global_step)>>]

RunStep(m, loss) ==
  LET r == StepResult(m, loss)
  IN [m EXCEPT !.global_step = r.global_step,
               !.hparams.epoch_step = @ + 1,
               !.calls.train = @ + 1,
               !.steps_since_init = @ + 1,
               !.trace = @ \o <<Ev("train", "ok", r.global_step),
                                Ev("add_summary", "step", r.global_step)>>]

\* lines 341 - 345
UpdateStatistics(m, loss) ==
  LET r == StepResult(m, loss)
  IN [m EXCEPT
        !.stats.step_time = @ + 1,
        !.stats.checkpoint_loss = FAdd(@, FMul(r.step_loss, r.batch_size)),
        !.stats.checkpoint_predict_count = @ + r.step_predict_count,
        !.stats.checkpoint_total_count = @ + r.step_word_count]

\* a NaN perplexity reported without leaving the loop
PrintStatisticsM(m) ==
  IF m.global_step % steps_per_stats = 0
  THEN LET nan == m.stats.checkpoint_loss = NaN
       IN [Emit(m, Ev("print_stats", IF nan THEN "nan" ELSE "ok",
                      m.stats.step_time))
             EXCEPT !.stats = ZeroStats]
  ELSE m

\* lines 348 - 363
PrintStatistics(m) ==
  IF m.global_step % steps_per_stats = 0
  THEN LET nan == m.stats.checkpoint_loss = NaN
           m1 == Emit(m, Ev("print_stats", IF nan THEN "nan" ELSE "ok",
                            m.stats.step_time))
       IN IF nan THEN [m1 EXCEPT !.broke = TRUE]
          ELSE [m1 EXCEPT !.stats = ZeroStats]
  ELSE m

\* the internal evaluation run before the checkpoint is written
SaveEvalM(m) ==
  IF m.global_step % steps_per_eval = 0
  THEN AppendResults(
         SaverSave(run_internal_eval(m), "out_dir", m.global_step))
  ELSE m

\* lines 365 - 380
SaveEval(m) ==
  IF m.global_step % steps_per_eval = 0
  THEN AppendResults(
         run_internal_eval(SaverSave(m, "out_dir", m.global_step)))
  ELSE m

\* lines 382 - 388
SaveExternalEval(m, dev_scores, test_scores) ==
  IF m.global_step % steps_per_external_eval = 0
  THEN run_external_eval(SaverSave(m, "out_dir", m.global_step),
                         dev_scores, test_scores)
  ELSE m

TrainStep ==
  /\ pc = "loop"
  /\ LoopCond(global_step, num_train_steps, eval_only)
  /\ batches_left > 0
  /\ \E loss \in StepLosses,
        dev_scores \in ScoreSets(hparams.metrics,
                     (global_step + 1) % steps_per_external_eval = 0),
        test_scores \in ScoreSets(hparams.metrics,
                     /\ (global_step + 1) % steps_per_external_eval = 0
                     /\ hparams.test_prefix) :
       LET m1 == RunStep(Cur, loss)
           m2 == UpdateStatistics(m1, loss)
           m3 == PrintStatistics(m2)
           m4 == IF m3.broke THEN m3 ELSE SaveEval(m3)
           m5 == IF m3.broke THEN m4
                 ELSE SaveExternalEval(m4, dev_scores, test_scores)
       IN /\ Commit(m5)
          /\ pc' = IF m5.broke THEN "done_training" ELSE "loop"
  /\ batches_left' = batches_left - 1
  /\ UNCHANGED <<eval_only, train_data, resources, num_train_steps,
                 steps_per_stats, steps_per_eval, steps_per_external_eval,
                 model_dir, skip_count>>

\* the end of an epoch also restarting the statistics
OutOfRangeM(m, dev_scores, test_scores) ==
  LET m1 == Emit([m EXCEPT !.hparams.epoch_step = 0, !.stats = ZeroStats],
                 Ev("train", "OutOfRangeError", m.global_step))
      m2 == run_external_eval(m1, dev_scores, test_scores)
  IN [Emit(m2, Ev("train_iterator.initializer", "skip", 0))
        EXCEPT !.steps_since_init = 0]

\* lines 323 - 335
OutOfRange(m, dev_scores, test_scores) ==
  LET m1 == Emit([m EXCEPT !.hparams.epoch_step = 0],
                 Ev("train", "OutOfRangeError", m.global_step))
      m2 == run_external_eval(m1, dev_scores, test_scores)
  IN [Emit(m2, Ev("train_iterator.initializer", "skip", 0))
        EXCEPT !.steps_since_init = 0]

EpochEnd ==
  /\ pc = "loop"
  /\ LoopCond(global_step, num_train_steps, eval_only)
  /\ batches_left = 0
  /\ \E dev_scores \in ScoreSets(hparams.metrics, TRUE),
        test_scores \in ScoreSets(hparams.metrics, hparams.test_prefix) :
       Commit(OutOfRange(Cur, dev_scores, test_scores))
  /\ skip_count' = 0
  /\ batches_left' = Batches(train_data, hparams.batch_size, 0)
  /\ pc' = "loop"
  /\ UNCHANGED <<eval_only, train_data, resources, num_train_steps,
                 steps_per_stats, steps_per_eval, steps_per_external_eval,
                 model_dir>>

\* line 315, the condition found false
ExitLoop ==
  /\ pc = "loop"
  /\ ~LoopCond(global_step, num_train_steps, eval_only)
  /\ pc' = "done_training"
  /\ trace' = <<>>
  /\ UNCHANGED <<eval_only, hparams, train_data, ckpt, saved_hparams,
                 resources, num_train_steps, steps_per_stats, steps_per_eval,
                 steps_per_external_eval, model_dir, global_step, dev_ppl,
                 test_ppl, all_dev_perplexities, all_test_perplexities,
                 all_steps, stats, skip_count, batches_left, steps_since_init,
                 ckpt_epoch_step, calls>>

(* -------------------- DoneTraining: lines 390 - 420 ------------------- *)
\* the final evaluations run without the final checkpoint
FinalEvalM(m, dev_scores, test_scores) ==
  run_external_eval(run_internal_eval(m), dev_scores, test_scores)

FinalEval(m, dev_scores, test_scores) ==
  run_external_eval(
    run_internal_eval(SaverSave(m, "out_dir", m.global_step)),
    dev_scores, test_scores)

DoneTraining ==
  /\ pc = "done_training"
  /\ \E dev_scores \in ScoreSets(hparams.metrics, ~eval_only),
        test_scores \in ScoreSets(hparams.metrics,
                                  ~eval_only /\ hparams.test_prefix) :
       LET m1 == IF ~eval_only THEN FinalEval(Cur, dev_scores, test_scores)
                 ELSE Cur
           m2 == Emit(AppendResults(m1), Ev("return", "results", 0))
       IN Commit(m2)
  /\ pc' = "returned"
  /\ UNCHANGED <<eval_only, train_data, resources, num_train_steps,
                 steps_per_stats, steps_per_eval, steps_per_external_eval,
                 model_dir, skip_count, batches_left>>

Next == Setup \/ FirstEval \/ TrainStep \/ EpochEnd \/ ExitLoop \/ DoneTraining

Spec == Init /\ [][Next]_vars

(* ===================== reading the trace of an action ================== *)
IdxOf(t, op) == {i \in 1..Len(t) : t[i].op = op}

Has(t, e) == \E i \in 1..Len(t) : t[i] = e

\* the action that produced trace t was a successful training step
TrainedOk(t) == Len(t) > 0 /\ t[1].op = "train" /\ t[1].arg = "ok"

\* the action that produced trace t was a step that found the data exhausted
EpochEnded(t) == Len(t) > 0 /\ t[1].op = "train" /\ t[1].arg = "OutOfRangeError"

\* the _external_eval call that event i of t belongs to
EvalOf(t, i) ==
  LET ks == {k \in 1..(i - 1) : t[k].op = "_external_eval"}
  IN IF ks = {} THEN Ev("none", "none", 0)
     ELSE t[CHOOSE k \in ks : \A j \in ks : j <= k]

(* ================================ C1 ================================== *)
\* C1: a successful training step that reaches a multiple of steps_per_eval
\* (= 10 * steps_per_stats) without leaving the loop on NaN saves a checkpoint
\* tagged with that global_step to out_dir before its one internal evaluation
\* runs, and then appends exactly one (dev_ppl, test_ppl, global_step) entry
\* to the three result lists.
C1_SaveThenInternalEval ==
  [][(/\ pc = "loop"
      /\ TrainedOk(trace')
      /\ pc' = "loop"
      /\ global_step' % steps_per_eval = 0)
     => /\ steps_per_eval = 10 * steps_per_stats
        /\ Cardinality(IdxOf(trace', "run_internal_eval")) = 1
        /\ \A i \in IdxOf(trace', "run_internal_eval") :
             /\ \E j \in 1..(i - 1) :
                  trace'[j] = Ev("save", "out_dir", global_step')
             /\ \E k \in (i + 1)..Len(trace') :
                  trace'[k] = Ev("append", "results", global_step')
        /\ Cardinality(IdxOf(trace', "append")) = 1
        /\ all_dev_perplexities' = Append(all_dev_perplexities, dev_ppl')
        /\ all_test_perplexities' = Append(all_test_perplexities, test_ppl')
        /\ all_steps' = Append(all_steps, global_step')]_vars

C1_Witness ==
  /\ pc = "loop"
  /\ TrainedOk(trace)
  /\ global_step % steps_per_eval = 0
  /\ Has(trace, Ev("run_internal_eval", "out_dir", global_step))
  /\ Len(all_steps) = 2

(* ================================ C2 ================================== *)
\* C2: steps_per_external_eval is hparams.steps_per_external_eval when that
\* is non-zero and 5 * steps_per_eval = 50 * steps_per_stats otherwise; a
\* successful step that reaches a multiple of it without leaving the loop on
\* NaN saves a checkpoint at that global_step to out_dir and then runs the
\* external evaluation, after the internal evaluation when the step is also a
\* multiple of steps_per_eval.
C2_ExternalEvalCadence ==
  /\ pc # "start" =>
       steps_per_external_eval =
         IF hparams.steps_per_external_eval # 0
         THEN hparams.steps_per_external_eval
         ELSE 50 * steps_per_stats
  /\ (pc = "loop" /\ TrainedOk(trace)
      /\ global_step % steps_per_external_eval = 0)
     => /\ Cardinality(IdxOf(trace, "run_external_eval")) = 1
        /\ \A i \in IdxOf(trace, "run_external_eval") :
             /\ \E j \in 1..(i - 1) :
                  trace[j] = Ev("save", "out_dir", global_step)
             /\ global_step % steps_per_eval = 0
                  => \E k \in 1..(i - 1) : trace[k].op = "run_internal_eval"
  /\ (pc = "loop" /\ TrainedOk(trace)
      /\ global_step % steps_per_external_eval # 0)
     => IdxOf(trace, "run_external_eval") = {}

C2_Witness ==
  /\ pc = "loop"
  /\ TrainedOk(trace)
  /\ hparams.steps_per_external_eval = 0
  /\ global_step % steps_per_external_eval = 0
  /\ IdxOf(trace, "run_internal_eval") # {}
  /\ IdxOf(trace, "run_external_eval") # {}

(* ================================ C3 ================================== *)
\* C3: when a training run returns, its last action saved a checkpoint tagged
\* with the final global_step to out_dir, then ran one internal and then one
\* external evaluation; the newest checkpoint of out_dir carries the final
\* global_step and the last entry of each returned list is the final
\* evaluation's value and the final global_step.
C3_FinalCheckpointAndEval ==
  (pc = "returned" /\ ~eval_only)
  => /\ trace[1] = Ev("save", "out_dir", global_step)
     /\ IdxOf(trace, "run_internal_eval") = {2}
     /\ Cardinality(IdxOf(trace, "run_external_eval")) = 1
     /\ \A i \in IdxOf(trace, "run_external_eval") : i > 2
     /\ \A i \in IdxOf(trace, "save") : trace[i].arg = "out_dir" => i = 1
     /\ ckpt["out_dir"] = global_step
     /\ Last(all_steps) = global_step
     /\ Last(all_dev_perplexities) = Ppl("dev", global_step)
     /\ Last(all_test_perplexities) =
          IF hparams.test_prefix THEN Ppl("test", global_step) ELSE None

C3_Witness ==
  /\ pc = "returned"
  /\ ~eval_only
  /\ calls.train > 0
  /\ global_step = num_train_steps
  /\ hparams.test_prefix
  /\ Last(all_test_perplexities) = Ppl("test", global_step)

(* ================================ C4 ================================== *)
\* C4: with eval_only and one metric, train loads from best_<metric>_dir, not
\* out_dir, runs no training step, saves no checkpoint to any directory,
\* never changes hparams.best_<metric> or hparams.epoch_step, runs exactly
\* one internal and one external evaluation, and returns three lists of
\* length 2 whose two entries are equal.
C4_EvalOnly ==
  /\ [](eval_only /\ pc \in {"first_eval", "loop", "done_training", "returned"}
        => /\ Len(hparams.metrics) = 1
           /\ model_dir = BestDir(hparams.metrics[1])
           /\ global_step = create_or_load_model(ckpt[model_dir])
           /\ calls.train = 0
           /\ calls.save = 0
           /\ IdxOf(trace, "save") = {}
           /\ pc = "first_eval" =>
                calls.internal_eval = 0 /\ calls.external_eval = 0
           /\ pc # "first_eval" =>
                calls.internal_eval = 1 /\ calls.external_eval = 1
           /\ pc = "returned" =>
                /\ Len(all_dev_perplexities) = 2
                /\ Len(all_test_perplexities) = 2
                /\ Len(all_steps) = 2
                /\ all_dev_perplexities[1] = all_dev_perplexities[2]
                /\ all_test_perplexities[1] = all_test_perplexities[2]
                /\ all_steps[1] = all_steps[2]
                /\ all_dev_perplexities[2] = Ppl("dev", ckpt[model_dir]))
  /\ [][eval_only => /\ ckpt' = ckpt
                     /\ hparams'.best = hparams.best
                     /\ hparams'.epoch_step = hparams.epoch_step]_vars

C4_Witness ==
  /\ eval_only
  /\ pc = "returned"
  /\ global_step > 0
  /\ hparams.epoch_step > 0
  /\ model_dir = "best_bleu_dir"
  /\ Len(all_steps) = 2

(* ================================ C5 ================================== *)
\* C5: the model variant follows hparams.attention and
\* hparams.attention_architecture; an unknown architecture raises ValueError
\* before any graph, session, log file, checkpoint or evaluation exists, and
\* eval_only with a number of metrics other than 1 raises ValueError before
\* any session is opened, any log file is written and any evaluation runs.
C5_ModelSelection ==
  (pc \in {"first_eval", "error"})
  => LET attention == trace[1].arg
         architecture == trace[2].arg
         known == {"standard", "gnmt", "gnmt_v2"}
         unknown == attention # "" /\ architecture \notin known
         quiet == /\ calls = [train |-> 0, save |-> 0, internal_eval |-> 0,
                              external_eval |-> 0]
                  /\ \A i \in 1..Len(trace) :
                       trace[i].op \notin {"log_file", "Session", "FileWriter",
                                           "create_or_load_model", "save"}
                  /\ resources \cap {"log_file", "sessions",
                                     "summary_writer"} = {}
     IN /\ trace[1].op = "hparams.attention"
        /\ attention # "" => trace[2].op = "hparams.attention_architecture"
        /\ unknown
             => /\ pc = "error"
                /\ Last(trace) = Ev("raise", "ValueError", 0)
                /\ Len(trace) = 3
                /\ resources = {}
                /\ quiet
        /\ ~unknown
             => /\ Has(trace, Ev("create_train_model",
                        IF attention = "" THEN "Model"
                        ELSE IF architecture = "standard" THEN "AttentionModel"
                        ELSE "GNMTModel", 0))
                /\ Cardinality(IdxOf(trace, "create_train_model")) = 1
        /\ (~unknown /\ eval_only /\ Len(hparams.metrics) # 1)
             => /\ pc = "error"
                /\ Last(trace) = Ev("raise", "ValueError", 0)
                /\ quiet
        /\ (~unknown /\ ~(eval_only /\ Len(hparams.metrics) # 1))
             => pc = "first_eval"

C5_Witness ==
  /\ pc = "error"
  /\ trace[1] = Ev("hparams.attention", "luong", 0)
  /\ trace[2] = Ev("hparams.attention_architecture", "transformer", 0)
  /\ resources = {}

(* ================================ C6 ================================== *)
\* C6: hparams.best_<metric> never decreases; it changes only inside a dev
\* external evaluation with save_on_best true and a loaded global step > 0,
\* only to a strictly larger score, each change immediately followed by a
\* checkpoint saved into best_<metric>_dir tagged with the evaluated model's
\* global step; the test evaluation never changes it nor writes there.
C6_BestNeverDecreases ==
  [][/\ \A x \in MetricNames :
          /\ hparams'.best[x] >= hparams.best[x]
          /\ hparams'.best[x] # hparams.best[x]
               => /\ ~eval_only
                  /\ hparams'.best[x] > hparams.best[x]
                  /\ Has(trace', Ev("set_best", x, hparams'.best[x]))
          /\ ckpt'[BestDir(x)] # ckpt[BestDir(x)]
               => hparams'.best[x] # hparams.best[x]
     /\ \A i \in 1..Len(trace') :
          /\ trace'[i].op = "set_best"
               => /\ EvalOf(trace', i).arg = "dev"
                  /\ EvalOf(trace', i).step > 0
                  /\ ~eval_only
                  /\ trace'[i].step > hparams.best[trace'[i].arg]
                  /\ i < Len(trace')
                  /\ trace'[i + 1] = Ev("save", BestDir(trace'[i].arg),
                                        EvalOf(trace', i).step)
          /\ (trace'[i].op = "save" /\ trace'[i].arg # "out_dir")
               => /\ i > 1
                  /\ trace'[i - 1].op = "set_best"
                  /\ BestDir(trace'[i - 1].arg) = trace'[i].arg]_vars

C6_Witness ==
  /\ ~eval_only
  /\ hparams.test_prefix
  /\ Has(trace, Ev("set_best", "rouge", 2))
  /\ \E i \in 1..Len(trace) :
       trace[i].op = "save" /\ trace[i].arg = "best_rouge_dir"
  /\ hparams.best["rouge"] = 2

(* ================================ C7 ================================== *)
\* C7: every internal or external evaluation started by train loads, from
\* model_dir, a model whose global step is the training loop's current
\* global_step.
C7_EvalAtCurrentStep ==
  \A i \in 1..Len(trace) :
    trace[i].op \in {"run_internal_eval", "run_external_eval"}
      => trace[i].step = global_step

(* ================================ C8 ================================== *)
\* C8: a step that finds the training iterator exhausted sets
\* hparams.epoch_step to 0, runs one external evaluation, re-initialises the
\* iterator with skip count 0 and continues the loop; global_step, the four
\* accumulators and the three result lists are unchanged and no step summary,
\* statistics report, out_dir checkpoint or internal evaluation happens.
C8_EpochEndFrame ==
  [][(pc = "loop" /\ EpochEnded(trace'))
     => /\ hparams'.epoch_step = 0
        /\ calls'.external_eval = calls.external_eval + 1
        /\ Cardinality(IdxOf(trace', "run_external_eval")) = 1
        /\ Last(trace') = Ev("train_iterator.initializer", "skip", 0)
        /\ skip_count' = 0
        /\ batches_left' = Batches(train_data, hparams.batch_size, 0)
        /\ pc' = "loop"
        /\ global_step' = global_step
        /\ stats' = stats
        /\ all_dev_perplexities' = all_dev_perplexities
        /\ all_test_perplexities' = all_test_perplexities
        /\ all_steps' = all_steps
        /\ ckpt'["out_dir"] = ckpt["out_dir"]
        /\ calls'.internal_eval = calls.internal_eval
        /\ calls'.train = calls.train
        /\ \A i \in 1..Len(trace') :
             /\ trace'[i].op \notin {"add_summary", "print_stats", "append",
                                    "run_internal_eval"}
             /\ trace'[i].op = "save" => trace'[i].arg # "out_dir"]_vars

C8_Witness ==
  /\ pc = "loop"
  /\ EpochEnded(trace)
  /\ global_step > 0
  /\ stats.step_time > 0
  /\ Len(all_steps) = 1

(* ================================ C9 ================================== *)
\* C9: a training step is attempted only while global_step < num_train_steps;
\* the loop makes at most num_train_steps - start_global_step successful
\* steps (none when the loaded global_step is already >= num_train_steps),
\* and it comes to an end whatever the interleaving of successful steps and
\* ends of epoch: every iteration that stays in the loop strictly lowers
\* LoopRank, which is never negative there.
LoopRank ==
  2 * (num_train_steps - global_step) + (IF batches_left = 0 THEN 1 ELSE 0)

C9_LoopTerminates ==
  /\ [](pc \in {"loop", "done_training", "returned"}
        => /\ TrainedOk(trace) => global_step - 1 < num_train_steps
           /\ EpochEnded(trace) => global_step < num_train_steps
           /\ global_step = all_steps[1] + calls.train
           /\ all_steps[1] >= num_train_steps => calls.train = 0
           /\ all_steps[1] < num_train_steps
                => calls.train <= num_train_steps - all_steps[1])
  /\ [][(pc = "loop" /\ pc' = "loop")
        => (LoopRank' < LoopRank /\ LoopRank' >= 0)]_vars
  /\ [][pc = "loop" => pc' \in {"loop", "done_training"}]_vars
  /\ [][pc = "done_training" => pc' \in {"done_training", "returned"}]_vars

C9_Witness ==
  /\ pc = "returned"
  /\ all_steps[1] > 0
  /\ calls.train = num_train_steps - all_steps[1]
  /\ calls.train >= 10
  /\ calls.external_eval > 10

(* ================================ C10 ================================= *)
\* C10: at every statistics report the accumulators cover exactly
\* steps_per_stats successful training steps (step_time is steps_per_stats
\* step durations), whatever the global_step the run started from, and after
\* a report that does not leave the loop on NaN all four accumulators are 0.
C10_StatsCoverWindow ==
  /\ \A i \in 1..Len(trace) :
       trace[i].op = "print_stats" => trace[i].step = steps_per_stats
  /\ (pc = "loop" /\ IdxOf(trace, "print_stats") # {}) => stats = ZeroStats

(* ================================ C11 ================================= *)
\* C11: a NaN training perplexity at a statistics report ends the loop at
\* once: the report is the step's last call (no periodic checkpoint, internal
\* or external evaluation, no list entry), the accumulators are not reset and
\* no further training step is made; the end-of-training checkpoint, internal
\* and external evaluation still run.
NanReport(t) ==
  \E i \in 1..Len(t) : t[i].op = "print_stats" /\ t[i].arg = "nan"

C11_NanExit ==
  /\ [](pc = "loop" /\ stats.checkpoint_loss = NaN
        => global_step % steps_per_stats # 0)
  /\ [][(pc = "loop" /\ TrainedOk(trace')
         /\ global_step' % steps_per_stats = 0
         /\ (stats.checkpoint_loss = NaN \/ NanReport(trace')))
        => /\ pc' = "done_training"
           /\ Last(trace').op = "print_stats"
           /\ Last(trace').arg = "nan"
           /\ \A i \in 1..Len(trace') :
                trace'[i].op \notin {"save", "run_internal_eval",
                                    "run_external_eval", "append",
                                    "save_hparams"}
           /\ stats'.step_time = stats.step_time + 1
           /\ stats'.checkpoint_loss = NaN
           /\ stats'.checkpoint_predict_count > stats.checkpoint_predict_count
           /\ stats'.checkpoint_total_count > stats.checkpoint_total_count
           /\ ckpt' = ckpt
           /\ calls'.save = calls.save
           /\ calls'.internal_eval = calls.internal_eval
           /\ calls'.external_eval = calls.external_eval
           /\ all_steps' = all_steps
           /\ all_dev_perplexities' = all_dev_perplexities
           /\ all_test_perplexities' = all_test_perplexities]_vars
  /\ [][(pc = "done_training" /\ ~eval_only /\ pc' # pc)
        => /\ pc' = "returned"
           /\ calls'.train = calls.train
           /\ global_step' = global_step
           /\ trace'[1] = Ev("save", "out_dir", global_step)
           /\ IdxOf(trace', "run_internal_eval") = {2}
           /\ Cardinality(IdxOf(trace', "run_external_eval")) = 1
           /\ calls'.internal_eval = calls.internal_eval + 1
           /\ calls'.external_eval = calls.external_eval + 1
           /\ ckpt'["out_dir"] = global_step]_vars

C11_Witness ==
  /\ pc = "returned"
  /\ ~eval_only
  /\ stats.checkpoint_loss = NaN
  /\ stats.step_time = steps_per_stats
  /\ global_step < num_train_steps
  /\ global_step % steps_per_eval = 0
  /\ global_step % steps_per_external_eval = 0
  /\ ckpt["out_dir"] = global_step
  /\ Len(all_steps) = 2

(* ===================================================================== *)
(* C12.  hparams.epoch_step counts the batches of the current pass over  *)
(* the training data.  The first initialisation of the iterator skips    *)
(* batch_size * epoch_step elements, every successful step adds exactly  *)
(* one to epoch_step, every end of epoch sets it to 0 and initialises    *)
(* the iterator again with skip 0 and never adds to it.  So at every     *)
(* iteration of the loop, the elements skipped at the last               *)
(* initialisation divided by batch_size, plus the successful steps since *)
(* that initialisation, equal hparams.epoch_step.                        *)
(* ===================================================================== *)
\* the skip count handed to the initializer by the action that wrote trace t
InitSkips(t) == {t[i].step : i \in IdxOf(t, "train_iterator.initializer")}

C12_EpochStepCountsBatches ==
  /\ [](pc = "loop" =>
          /\ skip_count % hparams.batch_size = 0
          /\ (skip_count \div hparams.batch_size) + steps_since_init
               = hparams.epoch_step)
  /\ [][(pc = "first_eval" /\ pc' = "loop") =>
          /\ InitSkips(trace') = {hparams'.batch_size * hparams.epoch_step}
          /\ skip_count' = hparams'.batch_size * hparams.epoch_step
          /\ hparams'.epoch_step = hparams.epoch_step
          /\ steps_since_init' = 0]_vars
  /\ [][(pc = "loop" /\ TrainedOk(trace')) =>
          /\ hparams'.epoch_step = hparams.epoch_step + 1
          /\ steps_since_init' = steps_since_init + 1
          /\ skip_count' = skip_count
          /\ InitSkips(trace') = {}]_vars
  /\ [][(pc = "loop" /\ EpochEnded(trace')) =>
          /\ hparams'.epoch_step = 0
          /\ steps_since_init' = 0
          /\ skip_count' = 0
          /\ InitSkips(trace') = {0}
          /\ global_step' = global_step
          /\ calls'.train = calls.train]_vars

\* a run resumed inside an epoch (a positive skip) has taken a step since
C12_Witness ==
  /\ pc = "loop"
  /\ skip_count > 0
  /\ steps_since_init > 0
  /\ hparams.epoch_step = skip_count \div hparams.batch_size + steps_since_init

(* ===================================================================== *)
(* C13.  Whenever hparams are persisted to out_dir (only an external     *)
(* evaluation does it), the persisted epoch_step and the newest          *)
(* checkpoint of out_dir describe the same training position: the        *)
(* checkpoint's global step was reached after exactly epoch_step batches *)
(* of the current epoch.  A checkpoint written by the last step of an    *)
(* epoch and an epoch_step of 0 persisted at that same global step are   *)
(* the same position (the start of the next pass).                       *)
(* ===================================================================== *)
C13_PersistedPositionMatchesCheckpoint ==
  IdxOf(trace, "save_hparams") # {} =>
    /\ \A i \in IdxOf(trace, "save_hparams") :
         trace[i].step = saved_hparams.epoch_step
    /\ \/ saved_hparams.epoch_step = ckpt_epoch_step
       \/ saved_hparams.epoch_step = 0 /\ ckpt["out_dir"] = global_step

====
